---- MODULE Spec2Model ----
(***************************************************************************)
(* Session-scoped simulator lifecycle of the iOS Simulator MCP server      *)
(* (src/src/index.ts): the registry managedSimulators, the tool handlers   *)
(* start_simulator, attach_simulator, destroy_simulator,                   *)
(* set_rotation_coords, the UI / capture / app tools, and the shutdown     *)
(* sweep cleanupAllSimulators.                                             *)
(*                                                                         *)
(* A tool handler is an async function: it runs without interruption up to *)
(* an await of an external command and resumes when that command returns.  *)
(* Each action below is one such uninterrupted piece: the return of the    *)
(* command the handler was awaiting (with its effect on the simulators),   *)
(* then the handler's code up to and including the start of the next       *)
(* command.                                                                *)
(***************************************************************************)
EXTENDS Integers, Sequences, FiniteSets, TLC

\* ------------------------------------------------------------------ bounds
NumSessions == 3
NumExternal == 1
MaxCreate == 2
MaxInFlight == 2
MaxRequests == 3
MaxCoord == 2
MaxSide == 2
MaxScreen == 3
MaxApplied == 2
MaxCatalog == 3

Sessions == 1..NumSessions
\* simulators that exist before the server starts (created by Xcode, ...)
ExternalUdids == 1..NumExternal
\* simulators `simctl create` can hand out, each udid once, in this order
CreatedUdids == (NumExternal + 1)..(NumExternal + MaxCreate)
Udids == ExternalUdids \cup CreatedUdids
Slots == 1..MaxInFlight

\* ------------------------------------------------------------ tool inputs
\* start_simulator's optional `type`; "" stands for an omitted or empty one
TypeInputs == {"", "iPhone"}

Orientation == {"auto", "portrait", "landscape_right", "upside_down", "landscape_left"}

\* the tools that resolve the session and then drive its simulator
FacadeTools == {"ui_describe_all", "ui_tap", "ui_type", "ui_swipe",
                "ui_describe_point", "ui_view", "screenshot", "record_video",
                "stop_recording", "install_app", "launch_app"}

\* ------------------------------------------------------------------ state
VARIABLES
  managedSimulators,  \* the Map, as its entries in insertion order
  devices,            \* the simulators simctl knows: udid -> [state, name]
  slot,               \* the tool handlers in flight, suspended at an await
  sweep,              \* cleanupAllSimulators: where it is, its iterator
  reply,              \* the tool result returned in this step, if any
  issued,             \* the external command started in this step, if any
  calls,              \* every shutdown / delete command started so far
  requests,           \* the number of tool calls received so far
  geo,                \* transformFrame at work: its inputs, what was applied, its result
  view,               \* ui_describe_all at work on the output of idb, a tap, a swipe, a point query
  prov                \* findDeviceType / findLatestRuntime at work on a simctl list

vars == <<managedSimulators, devices, slot, sweep, reply, issued, calls, requests,
          geo, view, prov>>

\* --------------------------------------------------------- the Map (JS Map)
MapHas(m, id) == \E i \in 1..Len(m) : m[i].id = id

MapIndex(m, id) == CHOOSE i \in 1..Len(m) : m[i].id = id

MapGet(m, id) == m[MapIndex(m, id)]

\* (variant: a new handle starts with the orientation portrait)
EntryPortrait(id, udid, name, owned, orientation) ==
  [id |-> id, udid |-> udid, name |-> name, owned |-> owned,
   orientation |-> IF orientation = "auto" THEN "portrait" ELSE orientation]

\* (variant: every handle is stored as not owned)
EntryNeverOwned(id, udid, name, owned, orientation) ==
  [id |-> id, udid |-> udid, name |-> name, owned |-> FALSE,
   orientation |-> orientation]

Entry(id, udid, name, owned, orientation) ==
  [id |-> id, udid |-> udid, name |-> name, owned |-> owned,
   orientation |-> orientation]

\* Map.prototype.set: a new key is appended, an existing key keeps its place
\* and gets the new value
MapSet(m, e) ==
  IF MapHas(m, e.id) THEN [m EXCEPT ![MapIndex(m, e.id)] = e] ELSE Append(m, e)

\* Map.prototype.delete
MapDelete(m, id) ==
  IF MapHas(m, id)
  THEN LET i == MapIndex(m, id)
       IN  SubSeq(m, 1, i - 1) \o SubSeq(m, i + 1, Len(m))
  ELSE m

\* ------------------------------------------------------------- the replies
NoReply == [isError |-> FALSE, msg |-> "none"]
Ok(msg) == [isError |-> FALSE, msg |-> msg]
Err(msg) == [isError |-> TRUE, msg |-> msg]

NoCall == [cmd |-> "none", udid |-> 0]
Call(cmd, udid) == [cmd |-> cmd, udid |-> udid]

\* ----------------------------------------------------------- the handlers
NoName == [sid |-> 0, slug |-> ""]
ExternalName == [sid |-> 0, slug |-> "external"]

IdleSlot == [op |-> "idle", pc |-> "idle", id |-> 0, keyword |-> "",
             udid |-> 0, name |-> NoName, owned |-> FALSE]

\* keyword.toLowerCase().replace(/\s+/g, "-")
KeywordSlug(keyword) ==
  CASE keyword = "iPhone" -> "iphone"
    [] keyword = "iPad Air" -> "ipad-air"
    [] OTHER -> ""

\* `${id}_${keyword.toLowerCase().replace(/\s+/g, "-")}`
DeviceName(id, keyword) == [sid |-> id, slug |-> KeywordSlug(keyword)]

\* type || "iPhone"
Keyword(type) == IF type = "" THEN "iPhone" ELSE type

\* cleanupAllSimulators before stdin closes.  begun, quiet and started record
\* the sweep for the properties: the Map and whether no handler was in flight
\* when it began, and the shutdown / delete commands it has started
IdleSweep == [pc |-> "idle", pos |-> 0, udid |-> 0, owned |-> FALSE, hung |-> FALSE,
              begun |-> <<>>, quiet |-> FALSE, started |-> {}]

\* the server takes a tool call: stdin is open (the sweep has not begun)
Accepting == sweep.pc = "idle" /\ requests < MaxRequests

\* a handler that suspends takes the first free place
FreeSlots == {r \in Slots : slot[r].op = "idle"}
Suspends(r) == r \in FreeSlots /\ \A q \in FreeSlots : r <= q

\* simctl hands out the udids it has not used yet, lowest first
FreshUdids == {u \in CreatedUdids : devices[u].state = "Uncreated"}
NextUdid == CHOOSE u \in FreshUdids : \A v \in FreshUdids : u <= v

\* no frame is being transformed
NoGeo == [frame |-> [x |-> 0, y |-> 0, width |-> 0, height |-> 0],
          screenW |-> 0, screenH |-> 0, applied |-> <<>>,
          out |-> [x |-> 0, y |-> 0, width |-> 0, height |-> 0]]

\* nothing has been described or tapped
NoTap == [done |-> FALSE, child |-> 0, x |-> 0, y |-> 0, args |-> <<>>,
          delivered |-> <<0, 0>>, orientation |-> "none", space |-> "none"]
NoSwipe == [done |-> FALSE, from |-> <<0, 0>>, to |-> <<0, 0>>, args |-> <<>>]
\* no point has been described
NoPoint == [done |-> FALSE, pending |-> FALSE, path |-> <<>>,
            orientation |-> "none", result |-> <<>>]
NoView == [elements |-> <<>>, stored |-> "none", effective |-> "none",
           described |-> FALSE, result |-> <<>>, tap |-> NoTap,
           point |-> NoPoint, swipe |-> NoSwipe]

\* no simctl list is being searched
NoProv == [fn |-> "none", list |-> <<>>, keyword |-> <<>>, done |-> FALSE,
           result |-> [ok |-> FALSE, value |-> <<>>]]

Init ==
  /\ managedSimulators = <<>>
  /\ devices \in [Udids -> [state : {"Booted", "Shutdown", "Uncreated", "Deleted"},
                            name : {NoName, ExternalName}]]
  /\ \A u \in ExternalUdids : devices[u] = [state |-> "Booted", name |-> ExternalName]
  /\ \A u \in CreatedUdids : devices[u] = [state |-> "Uncreated", name |-> NoName]
  /\ slot = [r \in Slots |-> IdleSlot]
  /\ sweep = IdleSweep
  /\ reply = NoReply
  /\ issued = NoCall
  /\ calls = {}
  /\ requests = 0
  /\ geo = NoGeo
  /\ view = NoView
  /\ prov = NoProv

\* ---------------------------------------------------------- start_simulator
\* (variant: the handler without its Active check)
StartRejectsNever(id) == FALSE

\* `const existing = managedSimulators.get(id); if (existing) throw ...`
StartRejects(id) == MapHas(managedSimulators, id)

\* the handler up to its first await: the Active check, then findDeviceType
\* starts `simctl list devicetypes`; the rejection is thrown before any await,
\* so only the other branch takes a place among the suspended handlers
StartSimulator(r, id, type) ==
  /\ requests' = requests + 1
  /\ UNCHANGED <<geo, view, prov>>
  /\ Accepting
  /\ IF StartRejects(id)
     THEN /\ reply' = Err("AlreadyRunning")
          /\ issued' = NoCall
          /\ slot' = slot
     ELSE /\ Suspends(r)
          /\ reply' = NoReply
          /\ issued' = Call("list_devicetypes", 0)
          /\ slot' = [slot EXCEPT ![r] = [IdleSlot EXCEPT !.op = "start",
                        !.pc = "findDeviceType", !.id = id,
                        !.keyword = Keyword(type)]]
  /\ UNCHANGED <<managedSimulators, devices, sweep, calls>>

\* (variant: the handle is registered as soon as the simulator is created, and
\* the catch does not take it back)
StartFailsRegistered(r, msg) ==
  /\ slot' = [slot EXCEPT ![r] = IdleSlot]
  /\ reply' = Err(msg)
  /\ issued' = NoCall
  /\ managedSimulators' =
       IF slot[r].udid # 0
       THEN MapSet(managedSimulators,
                   Entry(slot[r].id, slot[r].udid, slot[r].name, TRUE, "auto"))
       ELSE managedSimulators
  /\ UNCHANGED <<sweep, calls>>

\* the handler's catch: the error becomes the tool result
StartFails(r, msg) ==
  /\ slot' = [slot EXCEPT ![r] = IdleSlot]
  /\ reply' = Err(msg)
  /\ issued' = NoCall
  /\ UNCHANGED <<managedSimulators, sweep, calls>>

\* findDeviceType resumes: a match (findLatestRuntime starts `simctl list
\* runtimes`), no match, or the command failed
StartFindDeviceType(r) ==
  /\ UNCHANGED <<requests, geo, view, prov>>
  /\ slot[r].op = "start" /\ slot[r].pc = "findDeviceType"
  /\ UNCHANGED devices
  /\ \/ /\ slot' = [slot EXCEPT ![r].pc = "findLatestRuntime"]
        /\ reply' = NoReply
        /\ issued' = Call("list_runtimes", 0)
        /\ UNCHANGED <<managedSimulators, sweep, calls>>
     \/ \E msg \in {"NoDeviceType", "CommandFailed"} : StartFails(r, msg)

\* findLatestRuntime resumes: a runtime (`simctl create` is started), none
\* available, or the command failed
StartFindLatestRuntime(r) ==
  /\ UNCHANGED <<requests, geo, view, prov>>
  /\ slot[r].op = "start" /\ slot[r].pc = "findLatestRuntime"
  /\ UNCHANGED devices
  /\ \/ /\ slot' = [slot EXCEPT ![r].pc = "create"]
        /\ reply' = NoReply
        /\ issued' = Call("create", 0)
        /\ UNCHANGED <<managedSimulators, sweep, calls>>
     \/ \E msg \in {"NoRuntime", "CommandFailed"} : StartFails(r, msg)

\* `simctl create` returns the new udid (`simctl boot` is started), or fails
StartCreate(r) ==
  /\ UNCHANGED <<requests, geo, view, prov>>
  /\ slot[r].op = "start" /\ slot[r].pc = "create"
  /\ \/ /\ FreshUdids # {}
        /\ LET u == NextUdid
               n == DeviceName(slot[r].id, slot[r].keyword)
           IN  /\ devices' = [devices EXCEPT ![u] = [state |-> "Shutdown", name |-> n]]
               /\ slot' = [slot EXCEPT ![r].pc = "boot", ![r].udid = u, ![r].name = n]
               /\ issued' = Call("boot", u)
        /\ reply' = NoReply
        /\ UNCHANGED <<managedSimulators, sweep, calls>>
     \/ /\ StartFails(r, "CommandFailed")
        /\ UNCHANGED devices

\* `simctl boot` returns (`open -a Simulator.app` is started), or fails
StartBoot(r) ==
  /\ UNCHANGED <<requests, geo, view, prov>>
  /\ slot[r].op = "start" /\ slot[r].pc = "boot"
  /\ \/ /\ devices[slot[r].udid].state = "Shutdown"
        /\ devices' = [devices EXCEPT ![slot[r].udid].state = "Booted"]
        /\ slot' = [slot EXCEPT ![r].pc = "open"]
        /\ reply' = NoReply
        /\ issued' = Call("open", 0)
        /\ UNCHANGED <<managedSimulators, sweep, calls>>
     \/ /\ StartFails(r, "CommandFailed")
        /\ UNCHANGED devices

\* `open -a Simulator.app` returns and the handle is registered, or it fails
StartOpen(r) ==
  /\ UNCHANGED <<requests, geo, view, prov>>
  /\ slot[r].op = "start" /\ slot[r].pc = "open"
  /\ UNCHANGED devices
  /\ \/ /\ managedSimulators' = MapSet(managedSimulators,
               Entry(slot[r].id, slot[r].udid, slot[r].name, TRUE, "auto"))
        /\ slot' = [slot EXCEPT ![r] = IdleSlot]
        /\ reply' = Ok("started")
        /\ issued' = NoCall
        /\ UNCHANGED <<sweep, calls>>
     \/ StartFails(r, "CommandFailed")

\* --------------------------------------------------------- attach_simulator
\* (variant: the handler without its Active check)
AttachRejectsNever(id) == FALSE

\* `const existing = managedSimulators.get(id); if (existing) throw ...`
AttachRejects(id) == MapHas(managedSimulators, id)

\* (variant: the lookup in the device list always yields an entry)
FoundAlways(udid) == TRUE

\* the device list has an entry with this udid
Found(udid) == devices[udid].state \in {"Booted", "Shutdown"}

\* the handler up to its await: the Active check, then `simctl list devices`
\* is started; the rejection is thrown before any await, so only the other
\* branch takes a place among the suspended handlers
AttachSimulator(r, id, udid) ==
  /\ requests' = requests + 1
  /\ UNCHANGED <<geo, view, prov>>
  /\ Accepting
  /\ IF AttachRejects(id)
     THEN /\ reply' = Err("AlreadyAttached")
          /\ issued' = NoCall
          /\ slot' = slot
     ELSE /\ Suspends(r)
          /\ reply' = NoReply
          /\ issued' = Call("list_devices", 0)
          /\ slot' = [slot EXCEPT ![r] = [IdleSlot EXCEPT !.op = "attach",
                        !.pc = "list", !.id = id, !.udid = udid]]
  /\ UNCHANGED <<managedSimulators, devices, sweep, calls>>

\* `simctl list devices` returns (or fails): the udid is looked up, its state
\* checked, and the handle registered
AttachList(r) ==
  /\ UNCHANGED <<requests, geo, view, prov>>
  /\ slot[r].op = "attach" /\ slot[r].pc = "list"
  /\ slot' = [slot EXCEPT ![r] = IdleSlot]
  /\ issued' = NoCall
  /\ \/ /\ reply' = Err("CommandFailed")
        /\ UNCHANGED managedSimulators
     \/ /\ ~Found(slot[r].udid)
        /\ reply' = Err("NotFound")
        /\ UNCHANGED managedSimulators
     \/ /\ Found(slot[r].udid)
        /\ devices[slot[r].udid].state # "Booted"
        /\ reply' = Err("NotBooted")
        /\ UNCHANGED managedSimulators
     \/ /\ Found(slot[r].udid)
        /\ devices[slot[r].udid].state = "Booted"
        /\ managedSimulators' = MapSet(managedSimulators,
               Entry(slot[r].id, slot[r].udid, devices[slot[r].udid].name,
                     FALSE, "auto"))
        /\ reply' = Ok("attached")
  /\ UNCHANGED <<devices, sweep, calls>>

\* -------------------------------------------------------- destroy_simulator
\* a shutdown or delete command, with the `owned` flag of the handle it was
\* started for
Teardown(cmd, udid, owned) == [cmd |-> cmd, udid |-> udid, owned |-> owned]

\* (variant: the teardown without the `owned` test)
DestroyTearsDownAlways(sim) == TRUE

\* `if (owned)`: the handler shuts down and deletes the simulator
DestroyTearsDown(sim) == sim.owned

\* the Map's live iterator of the sweep, after the entry at place i is removed
IterAfterDelete(s, i) ==
  IF s.pc \in {"shutdown", "delete"} /\ i <= s.pos
  THEN [s EXCEPT !.pos = s.pos - 1]
  ELSE s

\* (variant: destroying a session without a simulator is reported as done)
DestroyUnknownSucceeds ==
  /\ reply' = Ok("destroyed")
  /\ issued' = NoCall
  /\ UNCHANGED <<managedSimulators, slot, sweep, calls>>

\* `if (!sim) throw ...`: the catch makes the error the tool result
DestroyUnknown ==
  /\ reply' = Err("NoSimulator")
  /\ issued' = NoCall
  /\ UNCHANGED <<managedSimulators, slot, sweep, calls>>

\* the handler up to its first await: the Active check; an attached handle is
\* forgotten at once, for an owned one `simctl shutdown` is started; only
\* that last branch awaits, so only it takes a place among the suspended
\* handlers
DestroySimulator(r, id) ==
  /\ requests' = requests + 1
  /\ UNCHANGED <<geo, view, prov>>
  /\ Accepting
  /\ UNCHANGED devices
  /\ IF ~MapHas(managedSimulators, id)
     THEN DestroyUnknown
     ELSE LET sim == MapGet(managedSimulators, id)
          IN  IF DestroyTearsDown(sim)
              THEN /\ Suspends(r)
                   /\ slot' = [slot EXCEPT ![r] = [IdleSlot EXCEPT
                            !.op = "destroy", !.pc = "shutdown", !.id = id,
                            !.udid = sim.udid, !.name = sim.name,
                            !.owned = sim.owned]]
                   /\ issued' = Call("shutdown", sim.udid)
                   /\ calls' = calls \cup {Teardown("shutdown", sim.udid, sim.owned)}
                   /\ reply' = NoReply
                   /\ UNCHANGED <<managedSimulators, sweep>>
              ELSE /\ managedSimulators' = MapDelete(managedSimulators, id)
                   /\ sweep' = IterAfterDelete(sweep, MapIndex(managedSimulators, id))
                   /\ reply' = Ok("detached")
                   /\ issued' = NoCall
                   /\ UNCHANGED <<slot, calls>>

\* the handler's catch: the error becomes the tool result
DestroyFails(r) ==
  /\ slot' = [slot EXCEPT ![r] = IdleSlot]
  /\ reply' = Err("CommandFailed")
  /\ issued' = NoCall
  /\ UNCHANGED <<managedSimulators, devices, sweep, calls>>

\* `simctl shutdown` returns (`simctl delete` is started), or fails
DestroyShutdown(r) ==
  /\ UNCHANGED <<requests, geo, view, prov>>
  /\ slot[r].op = "destroy" /\ slot[r].pc = "shutdown"
  /\ \/ /\ devices[slot[r].udid].state = "Booted"
        /\ devices' = [devices EXCEPT ![slot[r].udid].state = "Shutdown"]
        /\ slot' = [slot EXCEPT ![r].pc = "delete"]
        /\ issued' = Call("delete", slot[r].udid)
        /\ calls' = calls \cup {Teardown("delete", slot[r].udid, slot[r].owned)}
        /\ reply' = NoReply
        /\ UNCHANGED <<managedSimulators, sweep>>
     \/ DestroyFails(r)

\* `simctl delete` returns and the entry is removed, or it fails
DestroyDelete(r) ==
  /\ UNCHANGED <<requests, geo, view, prov>>
  /\ slot[r].op = "destroy" /\ slot[r].pc = "delete"
  /\ \/ /\ Found(slot[r].udid)
        /\ devices' = [devices EXCEPT ![slot[r].udid].state = "Deleted"]
        /\ managedSimulators' = MapDelete(managedSimulators, slot[r].id)
        /\ sweep' = IF MapHas(managedSimulators, slot[r].id)
                    THEN IterAfterDelete(sweep, MapIndex(managedSimulators, slot[r].id))
                    ELSE sweep
        /\ slot' = [slot EXCEPT ![r] = IdleSlot]
        /\ reply' = Ok("destroyed")
        /\ issued' = NoCall
        /\ UNCHANGED calls
     \/ DestroyFails(r)

\* ------------------------------------------------------ set_rotation_coords
\* (variant: the handle is replaced by a new object that drops `owned`)
SetOrientationRebuilds(sim, orientation) ==
  [sim EXCEPT !.orientation = orientation, !.owned = FALSE]

\* `sim.orientation = orientation`
SetOrientation(sim, orientation) == [sim EXCEPT !.orientation = orientation]

SetRotationCoords(id, orientation) ==
  /\ requests' = requests + 1
  /\ UNCHANGED <<geo, view, prov>>
  /\ Accepting
  /\ issued' = NoCall
  /\ IF ~MapHas(managedSimulators, id)
     THEN /\ reply' = Err("NoSimulatorCallStart")
          /\ UNCHANGED managedSimulators
     ELSE /\ managedSimulators' =
               [managedSimulators EXCEPT
                  ![MapIndex(managedSimulators, id)] =
                      SetOrientation(MapGet(managedSimulators, id), orientation)]
          /\ reply' = Ok("rotation set")
  /\ UNCHANGED <<devices, slot, sweep, calls>>

\* ------------------------------------------- the UI, capture and app tools
\* getManagedSimulatorId(id), and the same lookup inline in ui_describe_all
\* and ui_describe_point: the session's udid, or Throws
Throws == 0

\* (variant: an unknown session falls back to the first registered simulator)
getManagedSimulatorIdOrFirst(id) ==
  IF MapHas(managedSimulators, id) THEN MapGet(managedSimulators, id).udid
  ELSE IF managedSimulators # <<>> THEN managedSimulators[1].udid
  ELSE Throws

getManagedSimulatorId(id) ==
  IF MapHas(managedSimulators, id) THEN MapGet(managedSimulators, id).udid ELSE Throws

\* the tools that run idb: idb() throws before any command when the path in
\* IOS_SIMULATOR_MCP_IDB_PATH does not exist
IdbTools == {"ui_describe_all", "ui_tap", "ui_type", "ui_swipe",
             "ui_describe_point", "ui_view"}

\* where the handler of the tool waits after its first command has been
\* started: for the return of its only command ("command"), of idb
\* describe-point (ui_describe_point), of idb describe-all (ui_view), of
\* pkill (stop_recording), or, with the recording process spawned, for
\* "Recording started" or the 3000 ms timer (record_video)
FirstAwait(tool) ==
  CASE tool = "ui_describe_point" -> "describe-point"
    [] tool = "ui_view" -> "describe-all"
    [] tool = "stop_recording" -> "pkill"
    [] tool = "record_video" -> "timer"
    [] OTHER -> "command"

\* the handler's catch, or its return: the tool result
FacadeReplies(r, result) ==
  /\ reply' = result
  /\ issued' = NoCall
  /\ slot' = [slot EXCEPT ![r] = IdleSlot]

\* the handler starts its next command and awaits it
FacadeStarts(r, call, pc) ==
  /\ reply' = NoReply
  /\ issued' = call
  /\ slot' = [slot EXCEPT ![r].pc = pc]

\* the tool call arrives: the handler resolves the session and, unless the
\* idb path or the app bundle is missing, starts its first command on the
\* simulator and awaits it; there is no result yet
FacadeTool(id, tool) ==
  /\ requests' = requests + 1
  /\ UNCHANGED <<geo, view, prov>>
  /\ Accepting
  /\ IF getManagedSimulatorId(id) = Throws
     THEN /\ reply' = Err("NoSimulatorCallStart")
          /\ issued' = NoCall
          /\ slot' = slot
     ELSE \/ /\ tool \in IdbTools
             /\ reply' = Err("IdbNotFound")
             /\ issued' = NoCall
             /\ slot' = slot
          \/ /\ tool = "install_app"
             /\ reply' = Err("AppNotFound")
             /\ issued' = NoCall
             /\ slot' = slot
          \/ /\ reply' = NoReply
             /\ issued' = Call("tool", getManagedSimulatorId(id))
             /\ \E r \in Slots :
                   /\ Suspends(r)
                   /\ slot' = [slot EXCEPT ![r] = [IdleSlot EXCEPT
                                 !.op = "tool", !.pc = FirstAwait(tool), !.id = id,
                                 !.udid = getManagedSimulatorId(id)]]
  /\ UNCHANGED <<managedSimulators, devices, sweep, calls>>

\* the last command of the tool returns, or fails: the tool result
FacadeReturn(r) ==
  /\ UNCHANGED <<requests, geo, view, prov>>
  /\ slot[r].op = "tool" /\ slot[r].pc = "command"
  /\ \E result \in {Ok("done"), Err("CommandFailed")} : FacadeReplies(r, result)
  /\ UNCHANGED <<managedSimulators, devices, sweep, calls>>

\* the first command of ui_describe_point or ui_view returns.  It failed; or
\* (ui_describe_point) the element has no frame and is the result as it is;
\* or (ui_view) there is no screen frame; or the second command, idb
\* describe-all (unless the idb path is gone by now) or simctl io
\* screenshot, is started for the udid that the handler read at its start
FacadeSecond(r) ==
  /\ UNCHANGED <<requests, geo, view, prov>>
  /\ slot[r].op = "tool"
  /\ \/ /\ slot[r].pc = "describe-point"
        /\ \/ \E result \in {Err("CommandFailed"), Ok("done"), Err("IdbNotFound")} :
                 FacadeReplies(r, result)
           \/ FacadeStarts(r, Call("tool", slot[r].udid), "command")
     \/ /\ slot[r].pc = "describe-all"
        /\ \/ \E result \in {Err("CommandFailed"), Err("NoScreen")} :
                 FacadeReplies(r, result)
           \/ FacadeStarts(r, Call("tool", slot[r].udid), "screenshot")
  /\ UNCHANGED <<managedSimulators, devices, sweep, calls>>

\* simctl io screenshot of ui_view returns (`sips` is started), or fails
FacadeSips(r) ==
  /\ UNCHANGED <<requests, geo, view, prov>>
  /\ slot[r].op = "tool" /\ slot[r].pc = "screenshot"
  /\ \/ FacadeReplies(r, Err("CommandFailed"))
     \/ FacadeStarts(r, Call("sips", 0), "command")
  /\ UNCHANGED <<managedSimulators, devices, sweep, calls>>

\* pkill of stop_recording returns (the 1000 ms timer is started), or fails
FacadePkill(r) ==
  /\ UNCHANGED <<requests, geo, view, prov>>
  /\ slot[r].op = "tool" /\ slot[r].pc = "pkill"
  /\ \/ FacadeReplies(r, Err("CommandFailed"))
     \/ FacadeStarts(r, NoCall, "timer")
  /\ UNCHANGED <<managedSimulators, devices, sweep, calls>>

\* the timer of stop_recording fires; or record_video has seen "Recording
\* started" or its timer fire (recordingProcess.killed is false, the handler
\* never kills the process, which goes on recording after the result)
FacadeTimer(r) ==
  /\ UNCHANGED <<requests, geo, view, prov>>
  /\ slot[r].op = "tool" /\ slot[r].pc = "timer"
  /\ FacadeReplies(r, Ok("done"))
  /\ UNCHANGED <<managedSimulators, devices, sweep, calls>>

\* ----------------------------------------------------- cleanupAllSimulators
\* (variant: the sweep without the `owned` test)
SweepSkipsNone(sim) == FALSE

\* `if (!owned) continue`
SweepSkips(sim) == ~sim.owned

\* the loop from iterator position pos up to its next await: the entries that
\* are skipped, then either `simctl shutdown` is started for the next owned
\* one or, at the end of the Map, managedSimulators.clear()
CleanupLoop(from, pos) ==
  LET rest == {j \in (pos + 1)..Len(managedSimulators) :
                 ~SweepSkips(managedSimulators[j])}
  IN  IF rest = {}
      THEN /\ managedSimulators' = <<>>
           /\ sweep' = [from EXCEPT !.pc = "done", !.pos = 0, !.udid = 0]
           /\ issued' = NoCall
           /\ UNCHANGED calls
      ELSE LET j == CHOOSE k \in rest : \A l \in rest : k <= l
               sim == managedSimulators[j]
               cmd == Teardown("shutdown", sim.udid, sim.owned)
           IN  /\ sweep' = [from EXCEPT !.pc = "shutdown", !.pos = j,
                              !.udid = sim.udid, !.owned = sim.owned,
                              !.started = from.started \cup {cmd}]
               /\ issued' = Call("shutdown", sim.udid)
               /\ calls' = calls \cup {cmd}
               /\ UNCHANGED managedSimulators

\* stdin closes: the server stops taking requests and the sweep begins
cleanupAllSimulators ==
  /\ UNCHANGED <<requests, geo, view, prov>>
  /\ sweep.pc = "idle"
  /\ CleanupLoop([sweep EXCEPT !.begun = managedSimulators,
                                !.quiet = \A r \in Slots : slot[r].op = "idle"], 0)
  /\ reply' = NoReply
  /\ UNCHANGED <<devices, slot>>

\* (variant: one try around both commands, so a failed shutdown skips the
\* delete and the loop goes on with the next entry)
SweepShutdownSkipsDelete ==
  /\ UNCHANGED <<requests, geo, view, prov>>
  /\ sweep.pc = "shutdown" /\ ~sweep.hung
  /\ reply' = NoReply
  /\ UNCHANGED slot
  /\ \/ /\ devices[sweep.udid].state = "Booted"
        /\ devices' = [devices EXCEPT ![sweep.udid].state = "Shutdown"]
        /\ LET cmd == Teardown("delete", sweep.udid, sweep.owned)
           IN  /\ sweep' = [sweep EXCEPT !.pc = "delete",
                                         !.started = sweep.started \cup {cmd}]
               /\ calls' = calls \cup {cmd}
        /\ issued' = Call("delete", sweep.udid)
        /\ UNCHANGED managedSimulators
     \/ /\ UNCHANGED devices
        /\ CleanupLoop(sweep, sweep.pos)

\* `simctl shutdown` returns or fails (ignored); `simctl delete` is started
SweepShutdown ==
  /\ UNCHANGED <<requests, geo, view, prov>>
  /\ sweep.pc = "shutdown" /\ ~sweep.hung
  /\ \/ /\ devices[sweep.udid].state = "Booted"
        /\ devices' = [devices EXCEPT ![sweep.udid].state = "Shutdown"]
     \/ UNCHANGED devices
  /\ LET cmd == Teardown("delete", sweep.udid, sweep.owned)
     IN  /\ sweep' = [sweep EXCEPT !.pc = "delete",
                                   !.started = sweep.started \cup {cmd}]
         /\ calls' = calls \cup {cmd}
  /\ issued' = Call("delete", sweep.udid)
  /\ reply' = NoReply
  /\ UNCHANGED <<managedSimulators, slot>>

\* `simctl delete` returns or fails (ignored); the loop goes on
SweepDelete ==
  /\ UNCHANGED <<requests, geo, view, prov>>
  /\ sweep.pc = "delete" /\ ~sweep.hung
  /\ \/ /\ Found(sweep.udid)
        /\ devices' = [devices EXCEPT ![sweep.udid].state = "Deleted"]
     \/ UNCHANGED devices
  /\ CleanupLoop(sweep, sweep.pos)
  /\ reply' = NoReply
  /\ UNCHANGED slot

\* the command the sweep awaits never returns (run() sets no timeout)
SweepHangs ==
  /\ UNCHANGED <<requests, geo, view, prov>>
  /\ sweep.pc \in {"shutdown", "delete"} /\ ~sweep.hung
  /\ sweep' = [sweep EXCEPT !.hung = TRUE]
  /\ reply' = NoReply
  /\ issued' = NoCall
  /\ UNCHANGED <<managedSimulators, devices, slot, calls>>

\* ------------------------------------------------------- the specification
Next ==
  \/ \E r \in Slots, id \in Sessions, type \in TypeInputs : StartSimulator(r, id, type)
  \/ \E r \in Slots : StartFindDeviceType(r)
  \/ \E r \in Slots : StartFindLatestRuntime(r)
  \/ \E r \in Slots : StartCreate(r)
  \/ \E r \in Slots : StartBoot(r)
  \/ \E r \in Slots : StartOpen(r)
  \/ \E r \in Slots, id \in Sessions, udid \in Udids : AttachSimulator(r, id, udid)
  \/ \E r \in Slots : AttachList(r)
  \/ \E r \in Slots, id \in Sessions : DestroySimulator(r, id)
  \/ \E r \in Slots : DestroyShutdown(r)
  \/ \E r \in Slots : DestroyDelete(r)
  \/ \E id \in Sessions, orientation \in Orientation : SetRotationCoords(id, orientation)
  \/ \E id \in Sessions, tool \in FacadeTools : FacadeTool(id, tool)
  \/ \E r \in Slots : FacadeReturn(r)
  \/ \E r \in Slots : FacadeSecond(r)
  \/ \E r \in Slots : FacadeSips(r)
  \/ \E r \in Slots : FacadePkill(r)
  \/ \E r \in Slots : FacadeTimer(r)
  \/ cleanupAllSimulators
  \/ SweepShutdown
  \/ SweepDelete
  \/ SweepHangs

Spec == Init /\ [][Next]_vars

\* ------------------------------------- a session with its orientation set
\* a session has a handle, owned (start_simulator, on the first simulator that
\* simctl created) or attached (attach_simulator, to a simulator from outside),
\* and set_rotation_coords has set its orientation to other than auto; no
\* tool call is under way
OverrideInit ==
  /\ \E id \in Sessions, owned \in BOOLEAN, orientation \in Orientation \ {"auto"} :
        LET udid == IF owned THEN NumExternal + 1 ELSE 1
            name == IF owned THEN DeviceName(id, "iPhone") ELSE ExternalName
        IN  /\ managedSimulators =
                 <<SetOrientation(Entry(id, udid, name, owned, "auto"), orientation)>>
            /\ devices = [u \in Udids |->
                   IF u \in ExternalUdids
                   THEN [state |-> "Booted", name |-> ExternalName]
                   ELSE IF owned /\ u = udid
                   THEN [state |-> "Booted", name |-> name]
                   ELSE [state |-> "Uncreated", name |-> NoName]]
  /\ slot = [r \in Slots |-> IdleSlot]
  /\ sweep = IdleSweep
  /\ reply = NoReply
  /\ issued = NoCall
  /\ calls = {}
  /\ requests = 0
  /\ geo = NoGeo
  /\ view = NoView
  /\ prov = NoProv

\* the tools that register, change and remove handles
OverrideNext ==
  \/ \E r \in Slots, id \in Sessions, type \in TypeInputs : StartSimulator(r, id, type)
  \/ \E r \in Slots : StartFindDeviceType(r)
  \/ \E r \in Slots : StartFindLatestRuntime(r)
  \/ \E r \in Slots : StartCreate(r)
  \/ \E r \in Slots : StartBoot(r)
  \/ \E r \in Slots : StartOpen(r)
  \/ \E r \in Slots, id \in Sessions, udid \in Udids : AttachSimulator(r, id, udid)
  \/ \E r \in Slots : AttachList(r)
  \/ \E r \in Slots, id \in Sessions : DestroySimulator(r, id)
  \/ \E r \in Slots : DestroyShutdown(r)
  \/ \E r \in Slots : DestroyDelete(r)
  \/ \E id \in Sessions, orientation \in Orientation : SetRotationCoords(id, orientation)

OverrideSpec == OverrideInit /\ [][OverrideNext]_vars

\* ------------------------------------------------- coordinate transformation
\* interface Frame, with whole-numbered coordinates
Frames == [x : 0..MaxCoord, y : 0..MaxCoord, width : 0..MaxSide, height : 0..MaxSide]

\* the width and the height of the root frame of describe-all
ScreenSides == 1..MaxScreen

\* (variant: landscape_right subtracts from the screen's height)
transformFrameFromHeight(frame, orientation, screenW, screenH) ==
  CASE orientation \in {"portrait", "auto"} -> frame
    [] orientation = "landscape_right" ->
         [x |-> frame.y, y |-> screenH - frame.x - frame.width,
          width |-> frame.height, height |-> frame.width]
    [] orientation = "landscape_left" ->
         [x |-> screenH - frame.y - frame.height, y |-> frame.x,
          width |-> frame.height, height |-> frame.width]
    [] orientation = "upside_down" ->
         [x |-> screenW - frame.x - frame.width,
          y |-> screenH - frame.y - frame.height,
          width |-> frame.width, height |-> frame.height]

\* (variant: upside_down is computed as landscape_right, a quarter turn)
transformFrameHalfAsQuarter(frame, orientation, screenW, screenH) ==
  CASE orientation \in {"portrait", "auto"} -> frame
    [] orientation \in {"landscape_right", "upside_down"} ->
         [x |-> frame.y, y |-> screenW - frame.x - frame.width,
          width |-> frame.height, height |-> frame.width]
    [] orientation = "landscape_left" ->
         [x |-> screenH - frame.y - frame.height, y |-> frame.x,
          width |-> frame.height, height |-> frame.width]

\* (variant: landscape_left is computed as landscape_right)
transformFrameLeftAsRight(frame, orientation, screenW, screenH) ==
  CASE orientation \in {"portrait", "auto"} -> frame
    [] orientation \in {"landscape_right", "landscape_left"} ->
         [x |-> frame.y, y |-> screenW - frame.x - frame.width,
          width |-> frame.height, height |-> frame.width]
    [] orientation = "upside_down" ->
         [x |-> screenW - frame.x - frame.width,
          y |-> screenH - frame.y - frame.height,
          width |-> frame.width, height |-> frame.height]

\* (variant: the quarter turns keep width and height in place)
transformFrameKeepsSides(frame, orientation, screenW, screenH) ==
  CASE orientation \in {"portrait", "auto"} -> frame
    [] orientation = "landscape_right" ->
         [x |-> frame.y, y |-> screenW - frame.x - frame.width,
          width |-> frame.width, height |-> frame.height]
    [] orientation = "landscape_left" ->
         [x |-> screenH - frame.y - frame.height, y |-> frame.x,
          width |-> frame.width, height |-> frame.height]
    [] orientation = "upside_down" ->
         [x |-> screenW - frame.x - frame.width,
          y |-> screenH - frame.y - frame.height,
          width |-> frame.width, height |-> frame.height]

transformFrame(frame, orientation, screenW, screenH) ==
  CASE orientation \in {"portrait", "auto"} -> frame
    [] orientation = "landscape_right" ->
         [x |-> frame.y, y |-> screenW - frame.x - frame.width,
          width |-> frame.height, height |-> frame.width]
    [] orientation = "landscape_left" ->
         [x |-> screenH - frame.y - frame.height, y |-> frame.x,
          width |-> frame.height, height |-> frame.width]
    [] orientation = "upside_down" ->
         [x |-> screenW - frame.x - frame.width,
          y |-> screenH - frame.y - frame.height,
          width |-> frame.width, height |-> frame.height]

\* one use of transformFrame, as it is recorded in geo.applied
Applied(orientation, screenW, screenH) ==
  [orientation |-> orientation, screenW |-> screenW, screenH |-> screenH]

\* a frame and the screen's dimensions, nothing applied yet; no tool call is
\* under way
GeoInit ==
  /\ managedSimulators = <<>>
  /\ devices = [u \in Udids |->
                  IF u \in ExternalUdids
                  THEN [state |-> "Booted", name |-> ExternalName]
                  ELSE [state |-> "Uncreated", name |-> NoName]]
  /\ slot = [r \in Slots |-> IdleSlot]
  /\ sweep = IdleSweep
  /\ reply = NoReply
  /\ issued = NoCall
  /\ calls = {}
  /\ requests = 0
  /\ \E frame \in Frames, screenW \in ScreenSides, screenH \in ScreenSides :
        geo = [frame |-> frame, screenW |-> screenW, screenH |-> screenH,
               applied |-> <<>>, out |-> frame]
  /\ view = NoView
  /\ prov = NoProv

\* transformFrame is applied to the current frame, with the screen's
\* dimensions as they were reported or (swapped) as they are after a quarter
\* turn
ApplyTransformFrame(orientation, swapped) ==
  /\ Len(geo.applied) < MaxApplied
  /\ LET screenW == IF swapped THEN geo.screenH ELSE geo.screenW
         screenH == IF swapped THEN geo.screenW ELSE geo.screenH
     IN  geo' = [geo EXCEPT
                   !.out = transformFrame(geo.out, orientation, screenW, screenH),
                   !.applied = Append(geo.applied,
                                      Applied(orientation, screenW, screenH))]
  /\ UNCHANGED <<managedSimulators, devices, slot, sweep, reply, issued, calls,
                 requests, view, prov>>

GeoNext ==
  \E orientation \in Orientation, swapped \in BOOLEAN :
     ApplyTransformFrame(orientation, swapped)

GeoSpec == GeoInit /\ [][GeoNext]_vars

\* ------------------------------------------- ui_describe_all and ui_tap
\* (variant: a square screen counts as landscape)
getEffectiveOrientationSquare(orientation, screenWidth, screenHeight) ==
  IF orientation # "auto" THEN orientation
  ELSE IF screenWidth >= screenHeight THEN "landscape_right" ELSE "portrait"

getEffectiveOrientation(orientation, screenWidth, screenHeight) ==
  IF orientation # "auto" THEN orientation
  ELSE IF screenWidth > screenHeight THEN "landscape_right" ELSE "portrait"

\* `{{${frame.x}, ${frame.y}}, {${frame.width}, ${frame.height}}}`: the string,
\* as the four numbers it spells out, in its order
formatAXFrame(frame) == <<frame.x, frame.y, frame.width, frame.height>>

\* an element of idb's JSON: its frame (if it has one), the AXFrame string
\* that idb wrote for it, its children, and `type` for the fields that have
\* nothing to do with the frame (type, AXLabel, role, ...)
Element(hasFrame, frame, children) ==
  [hasFrame |-> hasFrame, frame |-> frame,
   AXFrame |-> IF hasFrame THEN formatAXFrame(frame) ELSE <<>>,
   type |-> IF children # <<>> THEN "Group"
            ELSE IF hasFrame THEN "Button" ELSE "Other",
   children |-> children]

\* `el.frame && (el.frame.width || el.frame.height)`
Framed(el) == el.hasFrame /\ (el.frame.width # 0 \/ el.frame.height # 0)

\* (variant: each element is built anew from its frame and its children,
\* without `{ ...el }`)
RECURSIVE transformElementTreeBare(_, _, _, _)
transformElementTreeBare(elements, orientation, screenW, screenH) ==
  [i \in 1..Len(elements) |->
     LET el == elements[i]
         frame == transformFrame(el.frame, orientation, screenW, screenH)
     IN  [hasFrame |-> el.hasFrame,
          frame |-> IF Framed(el) THEN frame ELSE el.frame,
          AXFrame |-> IF Framed(el) THEN formatAXFrame(frame) ELSE el.AXFrame,
          type |-> "",
          children |-> transformElementTreeBare(el.children, orientation,
                                                screenW, screenH)]]

\* (variant: the children of an element that is not rewritten are left alone)
RECURSIVE transformElementTreeFramedOnly(_, _, _, _)
transformElementTreeFramedOnly(elements, orientation, screenW, screenH) ==
  [i \in 1..Len(elements) |->
     LET el == elements[i]
     IN  IF Framed(el)
         THEN LET frame == transformFrame(el.frame, orientation, screenW, screenH)
              IN  [el EXCEPT !.frame = frame, !.AXFrame = formatAXFrame(frame),
                     !.children = transformElementTreeFramedOnly(
                                     el.children, orientation, screenW, screenH)]
         ELSE el]

RECURSIVE transformElementTree(_, _, _, _)
transformElementTree(elements, orientation, screenW, screenH) ==
  [i \in 1..Len(elements) |->
     LET el == elements[i]
         frame == transformFrame(el.frame, orientation, screenW, screenH)
         transformed == IF Framed(el)
                        THEN [el EXCEPT !.frame = frame,
                                        !.AXFrame = formatAXFrame(frame)]
                        ELSE el
     IN  [transformed EXCEPT
            !.children = transformElementTree(el.children, orientation,
                                              screenW, screenH)]]

\* what idb describe-all can print, within the bounds: the frames of the
\* elements below the root, ...
NoFrame == [x |-> 0, y |-> 0, width |-> 0, height |-> 0]
InnerFrames == {f \in Frames : /\ f.x = 1 /\ f.y = 0
                               /\ f.width \in {0, 1} /\ f.height \in {0, MaxSide}}
Leaves == {Element(FALSE, NoFrame, <<>>)} \cup {Element(TRUE, f, <<>>) : f \in InnerFrames}
Inner == Leaves \cup {Element(TRUE, f, <<c>>) : f \in InnerFrames, c \in Leaves}
              \cup {Element(FALSE, NoFrame, <<c>>) : c \in Leaves}
\* ... the root's children, ...
Children == {<<>>} \cup {<<a>> : a \in Inner} \cup {<<a, b>> : a \in Inner, b \in Leaves}
\* ... the root (the screen), and the array of it
RootFrames == {NoFrame} \cup {[x |-> 0, y |-> 0, width |-> w, height |-> h] :
                                  w \in ScreenSides, h \in ScreenSides}
Roots == {Element(TRUE, f, c) : f \in RootFrames, c \in Children}
           \cup {Element(FALSE, NoFrame, c) : c \in Children}
ElementArrays == {<<>>} \cup {<<root>> : root \in Roots}

\* no tool call is under way
NothingUnderWay ==
  /\ managedSimulators = <<>>
  /\ devices = [u \in Udids |->
                  IF u \in ExternalUdids
                  THEN [state |-> "Booted", name |-> ExternalName]
                  ELSE [state |-> "Uncreated", name |-> NoName]]
  /\ slot = [r \in Slots |-> IdleSlot]
  /\ sweep = IdleSweep
  /\ reply = NoReply
  /\ issued = NoCall
  /\ calls = {}
  /\ requests = 0

\* idb describe-all has printed its JSON
ViewInit ==
  /\ NothingUnderWay
  /\ geo = NoGeo
  /\ prov = NoProv
  /\ \E elements \in ElementArrays : view = [NoView EXCEPT !.elements = elements]

\* `elements[0]?.frame` is usable: `screenFrame && (screenFrame.width ||
\* screenFrame.height)`
HasScreen(elements) == elements # <<>> /\ Framed(elements[1])

\* ui_describe_all after `JSON.parse(stdout)`, for a session whose handle has
\* this orientation: the elements as they are returned
DescribeAll(stored) ==
  /\ ~view.described
  /\ LET elements == view.elements
         screenW == elements[1].frame.width
         screenH == elements[1].frame.height
         orientation == getEffectiveOrientation(stored, screenW, screenH)
     IN  view' = [view EXCEPT
                    !.described = TRUE,
                    !.stored = stored,
                    !.effective = IF HasScreen(elements) THEN orientation ELSE "none",
                    !.result = IF HasScreen(elements) /\ orientation # "portrait"
                               THEN transformElementTree(elements, orientation,
                                                         screenW, screenH)
                               ELSE elements]
  /\ UNCHANGED <<managedSimulators, devices, slot, sweep, reply, issued, calls,
                 requests, geo, prov>>

\* the point lies in the frame (its border included)
Inside(x, y, frame) ==
  /\ frame.x <= x /\ x <= frame.x + frame.width
  /\ frame.y <= y /\ y <= frame.y + frame.height

\* the simulator behind idb: how it is turned, and the coordinates idb's tap
\* works in: those idb describe-all reports ("reported"), or those of the
\* portrait screen, as the server's instructions have it ("portrait")
DeviceOrientations == Orientation \ {"auto"}
TapSpaces == {"reported", "portrait"}

\* String(n) for a whole number: its decimal digits, "-" first if negative
Digit(d) == <<"0", "1", "2", "3", "4", "5", "6", "7", "8", "9">>[d + 1]
RECURSIVE StringOfNat(_)
StringOfNat(n) ==
  IF n < 10 THEN <<Digit(n)>> ELSE Append(StringOfNat(n \div 10), Digit(n % 10))
String(n) == IF n < 0 THEN <<"-">> \o StringOfNat(0 - n) ELSE StringOfNat(n)

\* idb reads a number from its command line
DigitValue(c) == CHOOSE d \in 0..9 : Digit(d) = c
RECURSIVE ParseNat(_)
ParseNat(s) ==
  IF s = <<>> THEN 0
  ELSE 10 * ParseNat(SubSeq(s, 1, Len(s) - 1)) + DigitValue(s[Len(s)])
ParseNumber(s) == IF Head(s) = "-" THEN 0 - ParseNat(Tail(s)) ELSE ParseNat(s)

\* (variant: the point is turned back by the effective orientation before it
\* is sent)
UiTapTurnsBack(child, dx, dy, orientation, space) ==
  /\ view.described /\ ~view.tap.done /\ ~view.swipe.done
  /\ ~view.point.done /\ ~view.point.pending
  /\ HasScreen(view.elements)
  /\ (orientation \in {"landscape_right", "landscape_left"})
       <=> (view.elements[1].frame.width > view.elements[1].frame.height)
  /\ child \in 1..Len(view.result[1].children)
  /\ Framed(view.result[1].children[child])
  /\ LET frame == view.result[1].children[child].frame
         x == frame.x + dx
         y == frame.y + dy
         screen == view.elements[1].frame
         point == [x |-> x, y |-> y, width |-> 0, height |-> 0]
         back == CASE view.effective = "landscape_right" ->
                        transformFrame(point, "landscape_left",
                                       screen.height, screen.width)
                   [] view.effective = "landscape_left" ->
                        transformFrame(point, "landscape_right",
                                       screen.height, screen.width)
                   [] view.effective = "upside_down" ->
                        transformFrame(point, "upside_down",
                                       screen.width, screen.height)
                   [] OTHER -> point
     IN  /\ Inside(x, y, frame)
         /\ view' = [view EXCEPT !.tap = [done |-> TRUE, child |-> child,
                                          x |-> x, y |-> y,
                                          args |-> <<String(back.x), String(back.y)>>,
                                          delivered |-> <<ParseNumber(String(back.x)),
                                                          ParseNumber(String(back.y))>>,
                                          orientation |-> orientation,
                                          space |-> space]]
  /\ UNCHANGED <<managedSimulators, devices, slot, sweep, reply, issued, calls,
                 requests, geo, prov>>

\* ui_tap with a point of the frame that ui_describe_all returned for the
\* root's child-th child, (dx, dy) from the frame's origin: `String(x),
\* String(y)` go to idb as they are
UiTap(child, dx, dy, orientation, space) ==
  /\ view.described /\ ~view.tap.done /\ ~view.swipe.done
  /\ ~view.point.done /\ ~view.point.pending
  /\ HasScreen(view.elements)
  /\ (orientation \in {"landscape_right", "landscape_left"})
       <=> (view.elements[1].frame.width > view.elements[1].frame.height)
  /\ child \in 1..Len(view.result[1].children)
  /\ Framed(view.result[1].children[child])
  /\ LET frame == view.result[1].children[child].frame
         x == frame.x + dx
         y == frame.y + dy
     IN  /\ Inside(x, y, frame)
         /\ view' = [view EXCEPT !.tap = [done |-> TRUE, child |-> child,
                                          x |-> x, y |-> y,
                                          args |-> <<String(x), String(y)>>,
                                          delivered |-> <<ParseNumber(String(x)),
                                                          ParseNumber(String(y))>>,
                                          orientation |-> orientation,
                                          space |-> space]]
  /\ UNCHANGED <<managedSimulators, devices, slot, sweep, reply, issued, calls,
                 requests, geo, prov>>

\* ui_swipe from the point just tapped to the origin of the frame it lies in:
\* `String(x_start), String(y_start), String(x_end), String(y_end)` go to idb
\* as they are
UiSwipe ==
  /\ view.tap.done /\ ~view.swipe.done
  /\ LET frame == view.result[1].children[view.tap.child].frame
         x_start == view.tap.x
         y_start == view.tap.y
         x_end == frame.x
         y_end == frame.y
     IN  view' = [view EXCEPT !.swipe =
                    [done |-> TRUE, from |-> <<x_start, y_start>>,
                     to |-> <<x_end, y_end>>,
                     args |-> <<String(x_start), String(y_start),
                                String(x_end), String(y_end)>>]]
  /\ UNCHANGED <<managedSimulators, devices, slot, sweep, reply, issued, calls,
                 requests, geo, prov>>

\* the element of the tree that a path of child numbers leads to, from the
\* root, and the paths that lead to an element
RECURSIVE ElementAt(_, _)
ElementAt(el, path) ==
  IF path = <<>> THEN el ELSE ElementAt(el.children[Head(path)], Tail(path))

RECURSIVE PathsOf(_)
PathsOf(el) ==
  {<<>>} \cup UNION {{<<i>> \o p : p \in PathsOf(el.children[i])} :
                       i \in 1..Len(el.children)}

\* ui_describe_point, for the session whose tree ui_describe_all has just
\* returned (same handle, with the orientation it had then), after the
\* `JSON.parse(stdout)` of idb describe-point, which has printed the element
\* at the point: the element of the tree at this path.  An element without a
\* frame is the result as it is; otherwise the handler starts idb
\* describe-all and awaits it
DescribePoint(path) ==
  /\ view.described /\ ~view.tap.done /\ ~view.swipe.done
  /\ ~view.point.done /\ ~view.point.pending
  /\ view.elements # <<>>
  /\ path \in PathsOf(view.elements[1])
  /\ LET element == ElementAt(view.elements[1], path)
     IN  view' = [view EXCEPT !.point =
                    [done |-> ~Framed(element), pending |-> Framed(element),
                     path |-> path, orientation |-> view.stored,
                     result |-> element]]
  /\ UNCHANGED <<managedSimulators, devices, slot, sweep, reply, issued, calls,
                 requests, geo, prov>>

\* set_rotation_coords for the session, while its ui_describe_point awaits
\* idb describe-all: `sim.orientation = orientation` on the handle that the
\* waiting handler holds
DescribePointSetRotation(orientation) ==
  /\ view.point.pending
  /\ view' = [view EXCEPT !.point.orientation = orientation]
  /\ UNCHANGED <<managedSimulators, devices, slot, sweep, reply, issued, calls,
                 requests, geo, prov>>

\* idb describe-all returns to ui_describe_point, with the same tree as
\* before: the handler reads the root frame and sim.orientation, as it is
\* now, and transforms the element's frame
DescribePointReturns ==
  /\ view.point.pending
  /\ LET element == view.point.result
         screenFrame == view.elements[1]
         orientation == getEffectiveOrientation(view.point.orientation,
                           screenFrame.frame.width, screenFrame.frame.height)
         frame == transformFrame(element.frame, orientation,
                           screenFrame.frame.width, screenFrame.frame.height)
     IN  view' = [view EXCEPT
                    !.point.pending = FALSE,
                    !.point.done = TRUE,
                    !.point.result =
                       IF screenFrame.hasFrame /\ orientation # "portrait"
                       THEN [element EXCEPT !.frame = frame,
                                            !.AXFrame = formatAXFrame(frame)]
                       ELSE element]
  /\ UNCHANGED <<managedSimulators, devices, slot, sweep, reply, issued, calls,
                 requests, geo, prov>>

ViewNext ==
  \/ \E stored \in Orientation : DescribeAll(stored)
  \/ UiSwipe
  \/ \E path \in {<<>>, <<1>>, <<2>>, <<1, 1>>} : DescribePoint(path)
  \/ \E orientation \in Orientation : DescribePointSetRotation(orientation)
  \/ DescribePointReturns
  \/ \E child \in 1..2, dx \in 0..MaxSide, dy \in 0..MaxSide,
        orientation \in DeviceOrientations, space \in TapSpaces :
        UiTap(child, dx, dy, orientation, space)

ViewSpec == ViewInit /\ [][ViewNext]_vars

\* ------------------------------------- findDeviceType, findLatestRuntime
\* strings are sequences of characters
\* String.prototype.toLowerCase
LowerChar(c) ==
  CASE c = "I" -> "i" [] c = "P" -> "p" [] c = "A" -> "a" [] c = "X" -> "x"
    [] OTHER -> c
toLowerCase(s) == [i \in 1..Len(s) |-> LowerChar(s[i])]

\* String.prototype.includes
includes(s, part) ==
  \E i \in 0..(Len(s) - Len(part)) : SubSeq(s, i + 1, i + Len(part)) = part

\* String.prototype.startsWith
startsWith(s, part) ==
  Len(s) >= Len(part) /\ SubSeq(s, 1, Len(part)) = part

\* Array.prototype.filter, as the places of the entries that are kept
Matches(deviceTypes, keyword) ==
  {i \in 1..Len(deviceTypes) :
     includes(toLowerCase(deviceTypes[i].name), toLowerCase(keyword))}

First(places) == CHOOSE i \in places : \A j \in places : i <= j
Last(places) == CHOOSE i \in places : \A j \in places : j <= i

Returns(value) == [ok |-> TRUE, value |-> value]
ThrowsError(value) == [ok |-> FALSE, value |-> value]

\* (variant: the last match is returned)
findDeviceTypeLast(keyword, deviceTypes) ==
  LET matches == Matches(deviceTypes, keyword)
  IN  IF matches = {}
      THEN ThrowsError([error |-> "NoDeviceType", keyword |-> keyword,
                        names |-> [i \in 1..Len(deviceTypes) |-> deviceTypes[i].name]])
      ELSE Returns(deviceTypes[Last(matches)])

\* findDeviceType once `simctl list devicetypes -j` has been parsed
findDeviceType(keyword, deviceTypes) ==
  LET matches == Matches(deviceTypes, keyword)
  IN  IF matches = {}
      THEN ThrowsError([error |-> "NoDeviceType", keyword |-> keyword,
                        names |-> [i \in 1..Len(deviceTypes) |-> deviceTypes[i].name]])
      ELSE Returns(deviceTypes[First(matches)])

IOS == <<"i", "O", "S">>

\* `runtimes.filter((r) => r.isAvailable && r.name.startsWith("iOS"))`
IosRuntimes(runtimes) ==
  {i \in 1..Len(runtimes) :
     runtimes[i].isAvailable /\ startsWith(runtimes[i].name, IOS)}

\* (variant: the first available iOS runtime is returned)
findLatestRuntimeFirst(runtimes) ==
  LET iosRuntimes == IosRuntimes(runtimes)
  IN  IF iosRuntimes = {}
      THEN ThrowsError([error |-> "NoRuntime"])
      ELSE Returns(runtimes[First(iosRuntimes)].identifier)

\* findLatestRuntime once `simctl list runtimes -j` has been parsed
findLatestRuntime(runtimes) ==
  LET iosRuntimes == IosRuntimes(runtimes)
  IN  IF iosRuntimes = {}
      THEN ThrowsError([error |-> "NoRuntime"])
      ELSE Returns(runtimes[Last(iosRuntimes)].identifier)

\* the lists simctl can print, within the bounds: each entry has its own
\* identifier (here its place in simctl's list)
DeviceTypeNames == {<<"i", "P">>, <<"I", "p">>, <<"P", "a">>, <<"a">>, <<"X">>}
Keywords == {<<"i", "p">>, <<"P">>, <<"A">>, <<"p", "a", "d">>, <<"z">>}
RuntimeNames == {IOS, <<"i", "O", "S", " ", "1">>, <<"t", "v", "O", "S">>,
                 <<"i", "O">>, <<"x", "i", "O", "S">>}

ListsOf(entries) ==
  UNION {[1..n -> entries] : n \in 0..MaxCatalog}

DeviceTypeLists ==
  {[i \in 1..Len(l) |-> [name |-> l[i], identifier |-> i]] :
     l \in ListsOf(DeviceTypeNames)}

RuntimeLists ==
  {[i \in 1..Len(l) |-> [name |-> l[i].name, identifier |-> i,
                         isAvailable |-> l[i].isAvailable]] :
     l \in ListsOf([name : RuntimeNames, isAvailable : BOOLEAN])}

\* simctl has printed a list
ProvInit ==
  /\ NothingUnderWay
  /\ geo = NoGeo
  /\ view = NoView
  /\ \/ \E deviceTypes \in DeviceTypeLists, keyword \in Keywords :
          prov = [NoProv EXCEPT !.fn = "findDeviceType", !.list = deviceTypes,
                                !.keyword = keyword]
     \/ \E runtimes \in RuntimeLists :
          prov = [NoProv EXCEPT !.fn = "findLatestRuntime", !.list = runtimes]

FindDeviceType ==
  /\ prov.fn = "findDeviceType" /\ ~prov.done
  /\ prov' = [prov EXCEPT !.done = TRUE,
                          !.result = findDeviceType(prov.keyword, prov.list)]
  /\ UNCHANGED <<managedSimulators, devices, slot, sweep, reply, issued, calls,
                 requests, geo, view>>

FindLatestRuntime ==
  /\ prov.fn = "findLatestRuntime" /\ ~prov.done
  /\ prov' = [prov EXCEPT !.done = TRUE, !.result = findLatestRuntime(prov.list)]
  /\ UNCHANGED <<managedSimulators, devices, slot, sweep, reply, issued, calls,
                 requests, geo, view>>

ProvNext == FindDeviceType \/ FindLatestRuntime

ProvSpec == ProvInit /\ [][ProvNext]_vars

\* ------------------------------------------------------------- properties
IsNoDeviceError(r) == r \in {Err("NoSimulator"), Err("NoSimulatorCallStart")}

Owned(m) == {m[i].udid : i \in {k \in 1..Len(m) : m[k].owned}}
Attached(m) == {m[i].udid : i \in {k \in 1..Len(m) : ~m[k].owned}}

\* C1: a start_simulator call for a session that already has a simulator
\* fails with the "already running" error, starts no handler and no command,
\* and leaves managedSimulators (so the handle of the first start) unchanged.
C1_SecondStartRejected ==
  [][\A r \in Slots, id \in Sessions, type \in TypeInputs :
       (StartSimulator(r, id, type) /\ MapHas(managedSimulators, id))
         => /\ reply' = Err("AlreadyRunning")
            /\ managedSimulators' = managedSimulators
            /\ slot' = slot
            /\ issued' = NoCall]_vars

C1_Witness ==
  /\ reply = Err("AlreadyRunning")
  /\ \E i \in 1..Len(managedSimulators) : managedSimulators[i].owned

\* C2 (as claimed): no two sessions in managedSimulators hold the same udid.
C2_NoSharedInstance ==
  \A i, j \in 1..Len(managedSimulators) :
     i # j => managedSimulators[i].udid # managedSimulators[j].udid

\* C3: every shutdown or delete command is started for a handle with
\* owned = true, hence never for a simulator this process did not create;
\* destroy_simulator on an attached session removes the entry and starts no
\* command; and the sweep ends by emptying managedSimulators.
C3_UnownedNeverTornDown ==
  [][/\ \A c \in calls' : c.owned /\ c.udid \notin ExternalUdids
     /\ issued'.cmd \in {"shutdown", "delete"} =>
          /\ issued'.udid \notin ExternalUdids
          /\ \E c \in calls' : c.cmd = issued'.cmd /\ c.udid = issued'.udid
     /\ \A r \in Slots, id \in Sessions :
          ( /\ DestroySimulator(r, id)
            /\ MapHas(managedSimulators, id)
            /\ ~MapGet(managedSimulators, id).owned )
          => /\ ~MapHas(managedSimulators', id)
             /\ issued' = NoCall
             /\ calls' = calls
             /\ reply' = Ok("detached")
     /\ (sweep.pc # "done" /\ sweep'.pc = "done") =>
          /\ managedSimulators' = <<>>
          /\ \A c \in sweep'.started : c.owned /\ c.udid \notin ExternalUdids
    ]_vars

C3_Witness ==
  /\ sweep.pc = "done"
  /\ Attached(sweep.begun) # {} /\ Owned(sweep.begun) # {}
  /\ sweep.started # {}

\* C4 (as claimed): when destroy_simulator returns with a failed shutdown or
\* delete command, the session has no entry in managedSimulators.
C4_DestroyReleasesOnFailure ==
  [][\A r \in Slots :
       (slot[r].op = "destroy" /\ slot'[r].op = "idle" /\ reply' = Err("CommandFailed"))
         => ~MapHas(managedSimulators', slot[r].id)]_vars

\* C5 (as claimed): when the shutdown command of destroy_simulator returns,
\* failed or not, the delete command is started for the same simulator.
C5_DeleteAfterFailedShutdown ==
  [][\A r \in Slots :
       (slot[r].op = "destroy" /\ slot[r].pc = "shutdown" /\ slot'[r] # slot[r])
         => issued' = Call("delete", slot[r].udid)]_vars

\* C6 (as claimed): a start_simulator handler that registers its handle does
\* not replace a handle that another start_simulator registered for the same
\* session (of two starts in flight together at most one registers; the
\* other is rejected and overwrites nothing).
C6_NoOverwrite ==
  [][\A r \in Slots :
       (slot[r].op = "start" /\ slot'[r].op = "idle" /\ reply' = Ok("started"))
         => ~( /\ MapHas(managedSimulators, slot[r].id)
               /\ MapGet(managedSimulators, slot[r].id).owned )]_vars

\* C7: a tool call other than start_simulator / attach_simulator for a session
\* that is not in managedSimulators (never started, or removed and not started
\* or attached again) fails with the "no simulator is running" error, starts
\* no command and changes nothing.
C7_AbsentSessionFails ==
  [][\A id \in Sessions :
       ~MapHas(managedSimulators, id) =>
         /\ \A tool \in FacadeTools :
              FacadeTool(id, tool) => IsNoDeviceError(reply') /\ issued' = NoCall
         /\ \A orientation \in Orientation :
              SetRotationCoords(id, orientation) =>
                 IsNoDeviceError(reply') /\ issued' = NoCall
         /\ \A r \in Slots :
              DestroySimulator(r, id) =>
                 IsNoDeviceError(reply') /\ issued' = NoCall /\ slot' = slot
    ]_vars

C7_Witness ==
  /\ IsNoDeviceError(reply)
  /\ managedSimulators = <<>>
  /\ \E u \in CreatedUdids : devices[u].state = "Deleted"
  /\ \A r \in Slots : slot[r].op = "idle"

\* C8: a sweep that begins with three sessions, two with owned handles and one
\* attached to another simulator, and no handler in flight, has, when it is
\* done, started shutdown and delete for exactly the two owned udids, nothing
\* for the attached udid, and emptied managedSimulators.
C8_Scenario ==
  /\ sweep.quiet
  /\ Len(sweep.begun) = 3
  /\ Cardinality({k \in 1..3 : sweep.begun[k].owned}) = 2
  /\ Cardinality(Owned(sweep.begun)) = 2
  /\ Attached(sweep.begun) \cap Owned(sweep.begun) = {}

C8_SweepTearsDownOwnedOnly ==
  (sweep.pc = "done" /\ C8_Scenario) =>
     /\ sweep.started = {Teardown(cmd, u, TRUE) :
                           cmd \in {"shutdown", "delete"}, u \in Owned(sweep.begun)}
     /\ \A c \in sweep.started : c.udid \notin Attached(sweep.begun)
     /\ managedSimulators = <<>>

C8_Witness == sweep.pc = "done" /\ C8_Scenario

\* C9 (as claimed): a sweep that awaits a shutdown or delete command can
\* always go on, also when that command never returns.
C9_SweepNeverBlocked ==
  sweep.pc \in {"shutdown", "delete"} => ENABLED (SweepShutdown \/ SweepDelete)

\* C10: start_simulator registers nothing before its last step: the handler
\* goes on past its check only for a session without an entry, and every
\* step of it that is not the successful last one (so every failure, of the
\* device type or runtime lookup, of create, boot or open) leaves
\* managedSimulators unchanged.
C10_FailedStartRegistersNothing ==
  [][\A r \in Slots :
       /\ (slot[r].op = "idle" /\ slot'[r].op = "start")
            => ~MapHas(managedSimulators, slot'[r].id)
                 /\ managedSimulators' = managedSimulators
       /\ (slot[r].op = "start" /\ slot'[r] # slot[r] /\ reply' # Ok("started"))
            => managedSimulators' = managedSimulators
       /\ (slot[r].op = "start" /\ slot'[r].op = "idle" /\ reply'.isError)
            => (\A id \in Sessions :
                  MapHas(managedSimulators', id) <=> MapHas(managedSimulators, id))
    ]_vars

C10_Witness ==
  /\ requests = 1
  /\ reply = Err("CommandFailed")
  /\ \E u \in CreatedUdids : devices[u].state \in {"Shutdown", "Booted"}
  /\ managedSimulators = <<>>
  /\ \A r \in Slots : slot[r].op = "idle"

\* C11 (as claimed): when the `open -a Simulator.app` command of
\* start_simulator returns, failed or not, the start succeeds and the owned
\* handle of the session is registered.
C11_OpenFailureNotFatal ==
  [][\A r \in Slots :
       (slot[r].op = "start" /\ slot[r].pc = "open" /\ slot'[r] # slot[r])
         => /\ reply' = Ok("started")
            /\ MapHas(managedSimulators', slot[r].id)
            /\ MapGet(managedSimulators', slot[r].id).udid = slot[r].udid
            /\ MapGet(managedSimulators', slot[r].id).owned]_vars

\* the simulators that a start_simulator of this session created and that
\* have not been deleted
LiveCreatedFor(id) ==
  {u \in CreatedUdids : /\ devices[u].state \in {"Shutdown", "Booted"}
                        /\ devices[u].name.sid = id}

\* C12 (as claimed): at every moment, for every session, at most one simulator
\* created by a start_simulator of that session exists un-deleted.
C12_AtMostOneInstance ==
  \A id \in Sessions : Cardinality(LiveCreatedFor(id)) <= 1

\* C13: destroy_simulator for a session without an entry fails with the "no
\* simulator is running" error, starts no command and no handler, and leaves
\* managedSimulators and the simulators as they were.
C13_DestroyAbsentRejected ==
  [][\A r \in Slots, id \in Sessions :
       (DestroySimulator(r, id) /\ ~MapHas(managedSimulators, id))
         => /\ reply'.isError /\ reply'.msg = "NoSimulator"
            /\ issued' = NoCall
            /\ calls' = calls
            /\ managedSimulators' = managedSimulators
            /\ devices' = devices
            /\ slot' = slot]_vars

C13_Witness ==
  /\ reply = Err("NoSimulator")
  /\ managedSimulators # <<>>

\* C14: when attach_simulator has the device list, a udid that is not in it
\* gives the "not found" error and a udid whose simulator is in a state other
\* than Booted gives the "not booted" error; a failed attach_simulator
\* registers nothing.
C14_AttachChecksInstance ==
  [][\A r \in Slots :
       (slot[r].op = "attach" /\ slot'[r] # slot[r]) =>
          LET state == devices[slot[r].udid].state
          IN  /\ reply'.isError => managedSimulators' = managedSimulators
              /\ (reply' # Err("CommandFailed") /\ state \in {"Uncreated", "Deleted"})
                   => reply' = Err("NotFound")
              /\ (reply' # Err("CommandFailed") /\ state = "Shutdown")
                   => reply' = Err("NotBooted")
              /\ reply' = Ok("attached") => state = "Booted"]_vars

C14_Witness ==
  /\ reply = Err("NotBooted")
  /\ managedSimulators = <<>>
  /\ \E u \in CreatedUdids : devices[u].state = "Shutdown"

\* C15: an attach_simulator call for a session that already has a simulator,
\* started or attached, fails with the "already has a simulator" error, starts
\* no handler and no command, and leaves managedSimulators unchanged.
C15_AttachOnActiveRejected ==
  [][\A r \in Slots, id \in Sessions, udid \in Udids :
       (AttachSimulator(r, id, udid) /\ MapHas(managedSimulators, id))
         => /\ reply' = Err("AlreadyAttached")
            /\ managedSimulators' = managedSimulators
            /\ slot' = slot
            /\ issued' = NoCall]_vars

C15_Witness ==
  /\ reply = Err("AlreadyAttached")
  /\ \E i, j \in 1..Len(managedSimulators) :
        managedSimulators[i].owned /\ ~managedSimulators[j].owned

EntryOf(m, id) == IF MapHas(m, id) THEN {MapGet(m, id)} ELSE {}

\* a step of an operation on session a leaves every other session alone: its
\* entry stays as it is, and no shutdown or delete is started for its simulator
LeavesOthersAlone(a) ==
  \A b \in Sessions \ {a} :
     /\ EntryOf(managedSimulators', b) = EntryOf(managedSimulators, b)
     /\ issued'.cmd \in {"shutdown", "delete"} =>
          \A e \in EntryOf(managedSimulators, b) : e.udid # issued'.udid

\* C16 (as claimed): every step of a tool call for one session (the call
\* itself, and each resumption of its handler) leaves the entries of the
\* other sessions unchanged and starts no shutdown or delete for a simulator
\* that another session holds.
C16_SessionsIndependent ==
  [][/\ \A r \in Slots :
          slot'[r] # slot[r] =>
             LeavesOthersAlone(IF slot[r].op # "idle" THEN slot[r].id ELSE slot'[r].id)
     /\ \A id \in Sessions :
          ( \/ \E r \in Slots, type \in TypeInputs : StartSimulator(r, id, type)
            \/ \E r \in Slots, udid \in Udids : AttachSimulator(r, id, udid)
            \/ \E r \in Slots : DestroySimulator(r, id)
            \/ \E orientation \in Orientation : SetRotationCoords(id, orientation)
            \/ \E tool \in FacadeTools : FacadeTool(id, tool) )
          => LeavesOthersAlone(id)]_vars

\* C17: set_rotation_coords for a session with a simulator sets the
\* orientation of that session's handle and nothing else (udid, name and owned
\* stay, the other handles stay, no command is started); for a session
\* without one it fails with the "no simulator is running" error and changes
\* nothing.
C17_RotationOnlySetsOrientation ==
  [][\A id \in Sessions, orientation \in Orientation :
       SetRotationCoords(id, orientation) =>
          /\ issued' = NoCall
          /\ calls' = calls
          /\ devices' = devices
          /\ slot' = slot
          /\ Len(managedSimulators') = Len(managedSimulators)
          /\ \A i \in 1..Len(managedSimulators) :
               LET old == managedSimulators[i]
                   new == managedSimulators'[i]
               IN  /\ new.id = old.id /\ new.udid = old.udid
                   /\ new.name = old.name /\ new.owned = old.owned
                   /\ new.orientation =
                        IF old.id = id THEN orientation ELSE old.orientation
          /\ reply' = IF MapHas(managedSimulators, id)
                      THEN Ok("rotation set") ELSE Err("NoSimulatorCallStart")]_vars

C17_Witness ==
  /\ reply = Ok("rotation set")
  /\ Len(managedSimulators) = 2
  /\ \E i, j \in 1..2 : /\ managedSimulators[i].orientation = "upside_down"
                        /\ managedSimulators[j].orientation = "auto"

\* C18: a handle enters managedSimulators, or changes its udid or its owned
\* flag, only in the last step of a successful start_simulator (then with
\* owned = true) or of a successful attach_simulator (then with owned =
\* false), in both cases with orientation "auto"; and every successful start
\* or attach registers such a handle.
C18_OwnedIffStarted ==
  [][/\ \A id \in Sessions :
          ( /\ MapHas(managedSimulators', id)
            /\ \/ ~MapHas(managedSimulators, id)
               \/ MapGet(managedSimulators', id).owned # MapGet(managedSimulators, id).owned
               \/ MapGet(managedSimulators', id).udid # MapGet(managedSimulators, id).udid )
          => LET e == MapGet(managedSimulators', id)
             IN  /\ e.orientation = "auto"
                 /\ \E r \in Slots :
                      /\ slot[r].id = id /\ slot'[r].op = "idle"
                      /\ e.udid = slot[r].udid
                      /\ \/ slot[r].op = "start" /\ reply' = Ok("started") /\ e.owned
                         \/ slot[r].op = "attach" /\ reply' = Ok("attached") /\ ~e.owned
     /\ \A r \in Slots :
          (slot'[r] # slot[r] /\ reply' \in {Ok("started"), Ok("attached")})
            => /\ MapHas(managedSimulators', slot[r].id)
               /\ MapGet(managedSimulators', slot[r].id).owned = (reply' = Ok("started"))
               /\ MapGet(managedSimulators', slot[r].id).orientation = "auto"
    ]_vars

C18_Witness ==
  /\ reply = Ok("started")
  /\ Len(managedSimulators) = 2
  /\ \E i, j \in 1..2 : managedSimulators[i].owned /\ ~managedSimulators[j].owned

\* C19: transformFrame with "upside_down" applied twice, both times with the
\* same screen dimensions, gives back the frame it started from.
C19_UpsideDownInvolution ==
  ( /\ Len(geo.applied) = 2
    /\ geo.applied[1].orientation = "upside_down"
    /\ geo.applied[2] = geo.applied[1] )
  => geo.out = geo.frame

C19_Witness ==
  /\ Len(geo.applied) = 2
  /\ geo.applied[1] = Applied("upside_down", geo.screenW, geo.screenH)
  /\ geo.applied[2] = geo.applied[1]
  /\ geo.screenW # geo.screenH
  /\ geo.frame.width > 0 /\ geo.frame.height > 0
  /\ geo.frame.x # geo.screenW - geo.frame.x - geo.frame.width
  /\ geo.out = geo.frame

\* the two quarter turns, one after the other
QuarterTurns(a, b) ==
  {a.orientation, b.orientation} = {"landscape_right", "landscape_left"}

\* C20 (as claimed): transformFrame with "landscape_right" and then with
\* "landscape_left", or the other way round, both times with the same screen
\* dimensions, gives back the frame it started from.
C20_QuarterTurnsSameScreen ==
  ( /\ Len(geo.applied) = 2
    /\ QuarterTurns(geo.applied[1], geo.applied[2])
    /\ geo.applied[2].screenW = geo.applied[1].screenW
    /\ geo.applied[2].screenH = geo.applied[1].screenH )
  => geo.out = geo.frame

\* C20 (amended): transformFrame with "landscape_right" and then with
\* "landscape_left", or the other way round, the second time with the screen
\* dimensions exchanged (those of the turned frame), gives back the frame it
\* started from.
C20_QuarterTurnsTurnedScreen ==
  ( /\ Len(geo.applied) = 2
    /\ QuarterTurns(geo.applied[1], geo.applied[2])
    /\ geo.applied[2].screenW = geo.applied[1].screenH
    /\ geo.applied[2].screenH = geo.applied[1].screenW )
  => geo.out = geo.frame

C20_Witness ==
  /\ Len(geo.applied) = 2
  /\ geo.applied[1] = Applied("landscape_right", geo.screenW, geo.screenH)
  /\ geo.applied[2] = Applied("landscape_left", geo.screenH, geo.screenW)
  /\ geo.screenW > geo.screenH
  /\ geo.frame.width # geo.frame.height
  /\ geo.frame.x # geo.frame.y
  /\ geo.out = geo.frame

\* no tool handler is suspended and the sweep is not under way
Quiescent ==
  /\ \A r \in Slots : slot[r].op = "idle"
  /\ sweep.pc \in {"idle", "done"}

\* a `simctl delete` has been started for this simulator
DeleteIssued(u) == \E c \in calls : c.cmd = "delete" /\ c.udid = u

\* the simulators this process created that still exist and for which it has
\* started no delete
Undeleted == {u \in CreatedUdids : /\ devices[u].state \in {"Shutdown", "Booted"}
                                   /\ ~DeleteIssued(u)}

\* C27 (as claimed): when no operation is under way, every simulator that
\* this process created and for which it has started no delete is held by an
\* owned handle in managedSimulators.
C27_NoUntrackedInstance ==
  Quiescent => \A u \in Undeleted : u \in Owned(managedSimulators)

\* C28 (as claimed): no handle in managedSimulators refers to a simulator
\* that a delete started by this process has deleted.
C28_NoHandleToDeleted ==
  \A i \in 1..Len(managedSimulators) :
     ~( /\ DeleteIssued(managedSimulators[i].udid)
        /\ devices[managedSimulators[i].udid].state = "Deleted" )

\* C29 (as claimed): once the sweep is done, managedSimulators is empty and
\* stays empty, and when the handlers that were in flight have returned, no
\* simulator created by this process is left without a delete started for it.
C29_SweepLeavesNothing ==
  sweep.pc = "done" =>
     /\ managedSimulators = <<>>
     /\ Quiescent => Undeleted = {}

\* C30 (as claimed): the sweep, when it is done, has started shutdown and
\* delete for exactly the owned handles that were in managedSimulators when
\* it began, whatever was registered or removed while it awaited its commands.
C30_SweepOnSnapshot ==
  sweep.pc = "done" =>
     sweep.started = {Teardown(cmd, u, TRUE) :
                        cmd \in {"shutdown", "delete"}, u \in Owned(sweep.begun)}

\* C21: the orientation ui_describe_all works with is never "auto": for a
\* handle with "auto" it is "landscape_right" when the screen is wider than
\* high and "portrait" otherwise (a square screen included), for any other
\* handle it is the handle's orientation, whatever the screen.
C21_EffectiveOrientation ==
  (view.described /\ HasScreen(view.elements)) =>
     LET screen == view.elements[1].frame
     IN  /\ view.effective \in Orientation \ {"auto"}
         /\ view.stored # "auto" => view.effective = view.stored
         /\ (view.stored = "auto" /\ screen.width > screen.height)
              => view.effective = "landscape_right"
         /\ (view.stored = "auto" /\ screen.width <= screen.height)
              => view.effective = "portrait"

C21_Witness ==
  /\ view.described
  /\ view.stored = "auto"
  /\ HasScreen(view.elements)
  /\ view.elements[1].frame.width = view.elements[1].frame.height
  /\ view.effective = "portrait"

\* C22: one use of transformFrame gives, for "portrait", the frame as it was;
\* for "landscape_right", {y, screenW - x - width, height, width}; for
\* "landscape_left", {screenH - y - height, x, height, width}; for
\* "upside_down", {screenW - x - width, screenH - y - height, width, height}.
C22_TransformFrameTable ==
  Len(geo.applied) = 1 =>
     LET o == geo.applied[1].orientation
         w == geo.applied[1].screenW
         h == geo.applied[1].screenH
         r == geo.frame
         s == geo.out
     IN  /\ o = "portrait" => s = r
         /\ o = "landscape_right" =>
              /\ s.x = r.y /\ s.y = w - r.x - r.width
              /\ s.width = r.height /\ s.height = r.width
         /\ o = "landscape_left" =>
              /\ s.x = h - r.y - r.height /\ s.y = r.x
              /\ s.width = r.height /\ s.height = r.width
         /\ o = "upside_down" =>
              /\ s.x = w - r.x - r.width /\ s.y = h - r.y - r.height
              /\ s.width = r.width /\ s.height = r.height

C22_Witness ==
  /\ Len(geo.applied) = 1
  /\ geo.applied[1] = Applied("landscape_left", geo.screenW, geo.screenH)
  /\ geo.screenW # geo.screenH
  /\ geo.frame.width # geo.frame.height
  /\ geo.out.width = geo.frame.height
  /\ geo.out # geo.frame

\* an element of the returned tree against the element idb printed in its
\* place: untouched when it has no frame or a 0 x 0 one, else with its frame
\* rewritten by transformFrame and the AXFrame string spelling the new frame;
\* in both cases with as many children
Rewritten(old, new) ==
  LET screen == view.elements[1].frame
  IN  /\ Len(new.children) = Len(old.children)
      /\ new.hasFrame = old.hasFrame
      /\ IF old.hasFrame /\ ~(old.frame.width = 0 /\ old.frame.height = 0)
         THEN /\ new.frame = transformFrame(old.frame, view.effective,
                                            screen.width, screen.height)
              /\ new.AXFrame = <<new.frame.x, new.frame.y,
                                 new.frame.width, new.frame.height>>
         ELSE /\ new.frame = old.frame
              /\ new.AXFrame = old.AXFrame

\* ui_describe_all has rewritten the tree
TreeTransformed ==
  /\ view.described
  /\ HasScreen(view.elements)
  /\ view.effective # "portrait"

\* C23: in the tree that ui_describe_all returns after transformElementTree,
\* every element at every depth (the root, its children, their children) that
\* has no frame or a 0 x 0 frame is as idb printed it, and every element with
\* a nonzero width or height has its frame rewritten by transformFrame.
C23_TreeRewritesFramed ==
  TreeTransformed =>
     /\ Len(view.result) = Len(view.elements)
     /\ \A i \in 1..Len(view.elements) :
          LET a == view.elements[i]
              b == view.result[i]
          IN  /\ Rewritten(a, b)
              /\ \A j \in 1..Len(a.children) :
                   /\ Rewritten(a.children[j], b.children[j])
                   /\ \A k \in 1..Len(a.children[j].children) :
                        Rewritten(a.children[j].children[k],
                                  b.children[j].children[k])

C23_Witness ==
  /\ TreeTransformed
  /\ view.effective = "landscape_right"
  /\ Len(view.elements[1].children) = 2
  /\ LET a == view.elements[1].children[1]
         b == view.elements[1].children[2]
     IN  /\ ~a.hasFrame
         /\ Len(a.children) = 1
         /\ a.children[1].hasFrame /\ a.children[1].frame.width # 0
         /\ view.result[1].children[1].children[1].frame # a.children[1].frame
         /\ b.hasFrame /\ b.frame.width = 0 /\ b.frame.height = 0
         /\ view.result[1].children[2] = b

\* the frame of the tapped element in the coordinates idb's tap works in
TappedFrame ==
  LET raw == view.elements[1].children[view.tap.child].frame
      screen == view.elements[1].frame
  IN  IF view.tap.space = "reported" THEN raw
      ELSE transformFrame(raw, view.tap.orientation, screen.width, screen.height)

\* C26 (as claimed): however the simulator is turned, a point of a frame that
\* ui_describe_all returned, given to ui_tap, reaches idb as a point of that
\* element's frame.
C26_TapHitsElement ==
  view.tap.done =>
     Inside(view.tap.delivered[1], view.tap.delivered[2], TappedFrame)

\* the name contains the keyword, whatever the case of the letters
NameMatches(name, keyword) ==
  \E i \in 1..Len(name) :
     /\ i + Len(keyword) - 1 <= Len(name)
     /\ \A k \in 1..Len(keyword) :
          LowerChar(name[i + k - 1]) = LowerChar(keyword[k])

\* C24: findDeviceType returns the first entry of simctl's list whose name
\* contains the keyword, letters compared without regard to case; when no
\* name does, it fails with the "no device type" error, which lists the name
\* of every entry, in order.
C24_FirstMatchingDeviceType ==
  (prov.done /\ prov.fn = "findDeviceType") =>
     LET l == prov.list
         hits == {i \in 1..Len(l) : NameMatches(l[i].name, prov.keyword)}
     IN  IF hits = {}
         THEN /\ ~prov.result.ok
              /\ prov.result.value.error = "NoDeviceType"
              /\ Len(prov.result.value.names) = Len(l)
              /\ \A i \in 1..Len(l) : prov.result.value.names[i] = l[i].name
         ELSE /\ prov.result.ok
              /\ \E i \in hits : /\ \A j \in hits : i <= j
                                 /\ prov.result.value = l[i]

C24_Witness ==
  /\ prov.done /\ prov.fn = "findDeviceType"
  /\ Len(prov.list) = 3
  /\ prov.keyword = <<"i", "p">>
  /\ prov.list[1].name = <<"X">>
  /\ prov.list[2].name = <<"I", "p">>
  /\ prov.list[3].name = <<"i", "P">>
  /\ prov.result.ok /\ prov.result.value.identifier = 2

\* C25: findLatestRuntime returns the identifier of the last entry of
\* simctl's list that is available and whose name begins with "iOS", and
\* fails with the "no runtime" error when the list has no such entry.
C25_LastAvailableIosRuntime ==
  (prov.done /\ prov.fn = "findLatestRuntime") =>
     LET l == prov.list
         ios == {i \in 1..Len(l) :
                   /\ l[i].isAvailable
                   /\ Len(l[i].name) >= 3
                   /\ l[i].name[1] = "i" /\ l[i].name[2] = "O" /\ l[i].name[3] = "S"}
     IN  IF ios = {}
         THEN ~prov.result.ok /\ prov.result.value.error = "NoRuntime"
         ELSE /\ prov.result.ok
              /\ \E i \in ios : /\ \A j \in ios : j <= i
                                /\ prov.result.value = l[i].identifier

C25_Witness ==
  /\ prov.done /\ prov.fn = "findLatestRuntime"
  /\ Len(prov.list) = 3
  /\ prov.list[1].isAvailable /\ prov.list[1].name = IOS
  /\ prov.list[2].isAvailable /\ prov.list[2].name = <<"i", "O", "S", " ", "1">>
  /\ ~prov.list[3].isAvailable /\ prov.list[3].name = IOS
  /\ prov.result.ok /\ prov.result.value = 2

\* the first owned entry behind the sweep's iterator, if there is one
OwnedAhead ==
  {j \in (sweep.pos + 1)..Len(managedSimulators) : managedSimulators[j].owned}

\* C31: in the sweep, a shutdown or delete command that fails (it returns
\* and the simulator is as it was) stops nothing: after the shutdown the
\* delete is started for the same simulator; after the delete the loop goes
\* on with the next owned entry, or, when none is left, empties
\* managedSimulators; and a sweep that began with no handler in flight has,
\* when it is done, started both commands for every owned simulator.
C31_SweepSurvivesFailures ==
  [][/\ ( /\ sweep.pc = "shutdown"
          /\ (sweep'.pc # "shutdown" \/ sweep'.started # sweep.started)
          /\ devices' = devices )
          => /\ issued' = Call("delete", sweep.udid)
             /\ Teardown("delete", sweep.udid, TRUE) \in sweep'.started
     /\ (sweep.pc = "delete" /\ sweep'.pc # "delete" /\ devices' = devices)
          => IF OwnedAhead = {}
             THEN sweep'.pc = "done" /\ managedSimulators' = <<>>
             ELSE /\ sweep'.pc = "shutdown"
                  /\ \E j \in OwnedAhead :
                        /\ \A k \in OwnedAhead : j <= k
                        /\ issued' = Call("shutdown", managedSimulators[j].udid)
     /\ (sweep'.pc = "done" /\ sweep'.quiet)
          => /\ managedSimulators' = <<>>
             /\ \A u \in Owned(sweep'.begun), cmd \in {"shutdown", "delete"} :
                   Teardown(cmd, u, TRUE) \in sweep'.started
    ]_vars

C31_Witness ==
  /\ sweep.pc = "done" /\ sweep.quiet
  /\ Len(sweep.begun) = 2
  /\ sweep.begun[1].owned /\ sweep.begun[2].owned
  /\ devices[sweep.begun[1].udid].state = "Booted"
  /\ devices[sweep.begun[2].udid].state = "Deleted"
  /\ managedSimulators = <<>>

\* a shutdown / a delete command has been started for the simulator
Attempted(cs, cmd, u) == \E c \in cs : c.cmd = cmd /\ c.udid = u

\* C32 (as claimed): in destroy_simulator and in the sweep, a delete command
\* is started for a simulator only after a shutdown command has been started
\* for it, and the entry of an owned handle leaves managedSimulators only
\* after both commands have been started for its simulator.
C32_TeardownOrder ==
  [][/\ issued'.cmd = "delete" => Attempted(calls, "shutdown", issued'.udid)
     /\ \A i \in 1..Len(managedSimulators) :
          LET sim == managedSimulators[i]
          IN  (sim.owned /\ ~MapHas(managedSimulators', sim.id))
                => /\ Attempted(calls', "shutdown", sim.udid)
                   /\ Attempted(calls', "delete", sim.udid)
    ]_vars

\* C33 (as claimed): for the same handle orientation and the same tree
\* printed by idb, the frame (and AXFrame) that ui_describe_point returns for
\* an element is the frame that ui_describe_all returns for that element,
\* also when the root frame is 0 x 0 and the handle's orientation is set to
\* other than portrait.
C33_PointAgreesWithTree ==
  (view.point.done /\ view.point.orientation = view.stored) =>
     LET inTree == ElementAt(view.result[1], view.point.path)
     IN  /\ view.point.result.hasFrame = inTree.hasFrame
         /\ view.point.result.frame = inTree.frame
         /\ view.point.result.AXFrame = inTree.AXFrame

\* the two arrays have the same elements in the same places, with the same
\* fields, each equal to its counterpart in everything but frame and AXFrame,
\* and so on below them
RECURSIVE SameBut(_, _)
SameBut(old, new) ==
  /\ Len(new) = Len(old)
  /\ \A i \in 1..Len(old) :
       /\ DOMAIN new[i] = DOMAIN old[i]
       /\ new[i].type = old[i].type
       /\ new[i].hasFrame = old[i].hasFrame
       /\ SameBut(old[i].children, new[i].children)

\* the number of elements in the array and below it
RECURSIVE Nodes(_)
RECURSIVE CountFrom(_, _)
CountFrom(els, i) ==
  IF i > Len(els) THEN 0 ELSE 1 + Nodes(els[i].children) + CountFrom(els, i + 1)
Nodes(els) == CountFrom(els, 1)

\* C34: the tree that ui_describe_all returns after transformElementTree has
\* as many elements as the tree idb printed, in the same order and nesting,
\* and every element has the same fields with the same values, frame and
\* AXFrame apart.
C34_TreeKeepsStructure ==
  TreeTransformed =>
     /\ SameBut(view.elements, view.result)
     /\ Nodes(view.result) = Nodes(view.elements)

C34_Witness ==
  /\ TreeTransformed
  /\ view.effective = "landscape_left"
  /\ Nodes(view.elements) = 4
  /\ view.elements[1].children[1].type = "Group"
  /\ view.elements[1].children[1].children[1].type = "Button"
  /\ view.elements[1].children[2].type = "Other"
  /\ view.result # view.elements

\* the decimal numeral spells this whole number
Spells(s, n) ==
  LET digits == IF n < 0 THEN Tail(s) ELSE s
      value[k \in 0..Len(digits)] ==
        IF k = 0 THEN 0
        ELSE 10 * value[k - 1] +
             (CHOOSE d \in 0..9 :
                <<"0", "1", "2", "3", "4", "5", "6", "7", "8", "9">>[d + 1] = digits[k])
  IN  /\ s # <<>>
      /\ (n < 0) <=> (Head(s) = "-")
      /\ digits # <<>>
      /\ \A k \in 1..Len(digits) :
           digits[k] \in {"0", "1", "2", "3", "4", "5", "6", "7", "8", "9"}
      /\ value[Len(digits)] = (IF n < 0 THEN 0 - n ELSE n)

\* C35: whatever the orientation of the session's handle and however the
\* screen is turned, ui_tap hands idb the caller's x and y, and ui_swipe the
\* caller's x_start, y_start, x_end and y_end: the arguments spell the
\* numbers that came in, in that order, and nothing is transformed back.
C35_TapSwipeForwardUnchanged ==
  /\ view.tap.done =>
       /\ Len(view.tap.args) = 2
       /\ Spells(view.tap.args[1], view.tap.x)
       /\ Spells(view.tap.args[2], view.tap.y)
       /\ view.tap.delivered = <<view.tap.x, view.tap.y>>
  /\ view.swipe.done =>
       /\ Len(view.swipe.args) = 4
       /\ Spells(view.swipe.args[1], view.swipe.from[1])
       /\ Spells(view.swipe.args[2], view.swipe.from[2])
       /\ Spells(view.swipe.args[3], view.swipe.to[1])
       /\ Spells(view.swipe.args[4], view.swipe.to[2])

C35_Witness ==
  /\ view.tap.done /\ view.swipe.done
  /\ view.stored = "landscape_left"
  /\ view.tap.orientation = "landscape_right"
  /\ view.elements[1].frame.width > view.elements[1].frame.height
  /\ view.tap.x # view.tap.y
  /\ view.swipe.from # view.swipe.to
  /\ view.result[1].children[view.tap.child].frame
       # view.elements[1].children[view.tap.child].frame

\* the frame lies on a screen of this width and height
OnScreen(frame, w, h) ==
  /\ 0 <= frame.x /\ frame.x + frame.width <= w
  /\ 0 <= frame.y /\ frame.y + frame.height <= h

\* C36: transformFrame with an orientation other than auto takes a frame that
\* lies on the reported screen (screenW x screenH) to a frame with x >= 0 and
\* y >= 0 that lies on the canonical screen, which is screenW x screenH for
\* portrait and upside_down and screenH x screenW for landscape_right and
\* landscape_left; the root frame {0, 0, screenW, screenH} goes to a frame
\* with origin (0, 0).
C36_StaysOnCanonicalScreen ==
  ( /\ Len(geo.applied) = 1
    /\ geo.applied[1].orientation # "auto"
    /\ OnScreen(geo.frame, geo.applied[1].screenW, geo.applied[1].screenH) )
  => LET o == geo.applied[1].orientation
         w == geo.applied[1].screenW
         h == geo.applied[1].screenH
     IN  /\ geo.out.x >= 0 /\ geo.out.y >= 0
         /\ IF o \in {"portrait", "upside_down"}
            THEN OnScreen(geo.out, w, h)
            ELSE OnScreen(geo.out, h, w)
         /\ (geo.frame = [x |-> 0, y |-> 0, width |-> w, height |-> h])
              => geo.out.x = 0 /\ geo.out.y = 0

C36_Witness ==
  /\ Len(geo.applied) = 1
  /\ geo.applied[1].orientation = "landscape_right"
  /\ geo.applied[1].screenW = 3 /\ geo.applied[1].screenH = 2
  /\ geo.frame = [x |-> 1, y |-> 0, width |-> 2, height |-> 1]
  /\ geo.out = [x |-> 0, y |-> 0, width |-> 1, height |-> 2]

\* C37: a handle that start_simulator or attach_simulator registers has the
\* orientation auto, also for a session whose earlier handle, since removed by
\* destroy_simulator, had its orientation set to something else.
C37_OverrideDiesWithSession ==
  [][\A r \in Slots :
       ( /\ slot[r].op \in {"start", "attach"}
         /\ slot'[r].op = "idle"
         /\ reply' \in {Ok("started"), Ok("attached")} )
       => /\ MapHas(managedSimulators', slot[r].id)
          /\ MapGet(managedSimulators', slot[r].id).udid = slot[r].udid
          /\ MapGet(managedSimulators', slot[r].id).orientation = "auto"]_vars

C37_Witness ==
  /\ requests = 2
  /\ reply = Ok("started")
  /\ Len(managedSimulators) = 1
  /\ managedSimulators[1].orientation = "auto"
  /\ managedSimulators[1].owned
  /\ managedSimulators[1].udid = NumExternal + 2
  /\ devices[NumExternal + 1].state = "Deleted"
  /\ devices[NumExternal + 1].name.sid = managedSimulators[1].id

\* C38 (as claimed): a UI, capture or app tool called for a session without
\* an entry starts no command and leaves managedSimulators as it is; and
\* every command that such a tool starts on a simulator, when it is called
\* and each time its handler goes on, goes to the simulator that
\* managedSimulators holds for the tool's session at that moment.
C38_ToolsTargetRegistered ==
  [][/\ \A id \in Sessions, tool \in FacadeTools :
          FacadeTool(id, tool) =>
             /\ managedSimulators' = managedSimulators
             /\ IF MapHas(managedSimulators, id)
                THEN issued' \in {NoCall, Call("tool", MapGet(managedSimulators, id).udid)}
                ELSE issued' = NoCall /\ IsNoDeviceError(reply') /\ slot' = slot
     /\ \A r \in Slots :
          (slot[r].op = "tool" /\ slot'[r] # slot[r]) =>
             /\ managedSimulators' = managedSimulators
             /\ issued'.cmd = "tool" =>
                  /\ MapHas(managedSimulators, slot[r].id)
                  /\ issued' = Call("tool", MapGet(managedSimulators, slot[r].id).udid)
    ]_vars

\* C39 (as claimed): as long as a session has an entry in managedSimulators,
\* the entry's udid, name and owned flag stay as they are; only
\* set_rotation_coords changes an entry (its orientation); and an entry
\* leaves managedSimulators only by destroy_simulator of its session or by
\* the sweep.
C39_HandleImmutable ==
  [][\A i \in 1..Len(managedSimulators) :
       LET old == managedSimulators[i]
       IN  IF MapHas(managedSimulators', old.id)
           THEN LET new == MapGet(managedSimulators', old.id)
                IN  /\ new.udid = old.udid
                    /\ new.name = old.name
                    /\ new.owned = old.owned
                    /\ new.orientation # old.orientation =>
                         \E orientation \in Orientation :
                            SetRotationCoords(old.id, orientation)
           ELSE \/ \E r \in Slots : DestroySimulator(r, old.id)
                \/ \E r \in Slots : /\ slot[r].op = "destroy"
                                    /\ slot[r].id = old.id
                                    /\ slot'[r].op = "idle"
                \/ sweep.pc # "done" /\ sweep'.pc = "done"
    ]_vars

====
